---- MODULE Spec2Model ----
(***************************************************************************)
(* Model of the image-information parser (split_info) and of the layout    *)
(* builder (build_info_html) of model_manager.ts / model_manager.js.       *)
(* A string is a sequence of one-character strings.                        *)
(***************************************************************************)
EXTENDS Integers, Sequences, FiniteSets, TLC

(***************************************************************************)
(* Bounds of the input space.                                              *)
(***************************************************************************)
MaxTokens == 4

(***************************************************************************)
(* Characters.                                                             *)
(***************************************************************************)
LowerCase ==
    <<"a", "b", "c", "d", "e", "f", "g", "h", "i", "j", "k", "l", "m",
      "n", "o", "p", "q", "r", "s", "t", "u", "v", "w", "x", "y", "z">>

UpperCase ==
    <<"A", "B", "C", "D", "E", "F", "G", "H", "I", "J", "K", "L", "M",
      "N", "O", "P", "Q", "R", "S", "T", "U", "V", "W", "X", "Y", "Z">>

Digits ==
    {"0", "1", "2", "3", "4", "5", "6", "7", "8", "9"}

\* the class \w of the regular expressions
IsWordChar(c) ==
    \/ \E i \in 1..26 : c = LowerCase[i] \/ c = UpperCase[i]
    \/ c \in Digits
    \/ c = "_"

\* the class [\w ] of the field-name group
IsNameChar(c) ==
    IsWordChar(c) \/ c = " "

\* the characters String.prototype.trim removes
IsWhitespace(c) ==
    c \in {" ", "\t", "\n"}

\* variant: the /i flag dropped, the match is case-sensitive
ToLowerCharIdentity(c) ==
    c

\* the case folding of the /i flag
ToLowerChar(c) ==
    IF \E i \in 1..26 : c = UpperCase[i]
    THEN LowerCase[CHOOSE i \in 1..26 : c = UpperCase[i]]
    ELSE c

(***************************************************************************)
(* String operations of the JavaScript runtime used by the two functions.  *)
(***************************************************************************)
RECURSIVE TrimStart(_)
TrimStart(s) ==
    IF s = <<>> THEN <<>>
    ELSE IF IsWhitespace(Head(s)) THEN TrimStart(Tail(s))
    ELSE s

RECURSIVE TrimEnd(_)
TrimEnd(s) ==
    IF s = <<>> THEN <<>>
    ELSE IF IsWhitespace(s[Len(s)]) THEN TrimEnd(SubSeq(s, 1, Len(s) - 1))
    ELSE s

\* String.prototype.trim
Trim(s) ==
    TrimEnd(TrimStart(s))

\* does sep occur in s at position i
OccursAt(s, sep, i) ==
    /\ i >= 1
    /\ i + Len(sep) - 1 <= Len(s)
    /\ SubSeq(s, i, i + Len(sep) - 1) = sep

\* String.prototype.indexOf, 1-based, 0 when sep does not occur
IndexOf(s, sep) ==
    IF \E i \in 1..Len(s) : OccursAt(s, sep, i)
    THEN CHOOSE i \in 1..Len(s) :
            /\ OccursAt(s, sep, i)
            /\ \A j \in 1..(i - 1) : ~OccursAt(s, sep, j)
    ELSE 0

\* String.prototype.split with a non-empty string separator
RECURSIVE Split(_, _)
Split(s, sep) ==
    IF IndexOf(s, sep) = 0 THEN <<s>>
    ELSE <<SubSeq(s, 1, IndexOf(s, sep) - 1)>>
         \o Split(SubSeq(s, IndexOf(s, sep) + Len(sep), Len(s)), sep)

\* String.prototype.replace(/c/g, r) for a one-character pattern c
RECURSIVE ReplaceAll(_, _, _)
ReplaceAll(s, c, r) ==
    IF s = <<>> THEN <<>>
    ELSE (IF Head(s) = c THEN r ELSE <<Head(s)>>) \o ReplaceAll(Tail(s), c, r)

(***************************************************************************)
(* Literals of the source.                                                 *)
(***************************************************************************)
BR ==
    <<"<", "b", "r", ">">>

Comma ==
    <<",">>

CommaSpace ==
    <<",", " ">>

Prompt ==
    <<"P", "r", "o", "m", "p", "t">>

LtEntity ==
    <<"&", "l", "t", ";">>

GtEntity ==
    <<"&", "g", "t", ";">>

PromptWord ==
    <<"p", "r", "o", "m", "p", "t">>

ContainerOpen ==
    "<div class=\"sd-mm-model-info-container\">\n"

RowOpen ==
    "<div class=\"row\">\n"

FieldOpen ==
    "    <div class=\"field\">\n"

VerticalFieldOpen ==
    "    <div class=\"vertical-field\">\n"

NameLine ==
    "            <div class=\"name\">${field.name}</div>\n"

ValueLine ==
    "            <div class=\"value\">${field.value}</div>\n"

BlockClose ==
    "        </div>\n"

RowClose ==
    "    </div>\n"

ContainerClose ==
    "</div>\n"

(***************************************************************************)
(* The regular expression /^([\w ]+): ([^,]+)/ of split_info.              *)
(***************************************************************************)
\* length of the longest prefix of s made of characters satisfying [\w ]
RECURSIVE NameRun(_)
NameRun(s) ==
    IF s = <<>> THEN 0
    ELSE IF IsNameChar(Head(s)) THEN 1 + NameRun(Tail(s))
    ELSE 0

\* length of the longest prefix of s made of characters satisfying [^,]
RECURSIVE ValueRun(_)
ValueRun(s) ==
    IF s = <<>> THEN 0
    ELSE IF Head(s) # "," THEN 1 + ValueRun(Tail(s))
    ELSE 0

\* the text after the name group and the ": " separator
AfterSeparator(s) ==
    SubSeq(s, NameRun(s) + 3, Len(s))

\* variant: the name group is [\w ]* and may be empty
MatchesEmptyName(s) ==
    /\ Len(s) >= NameRun(s) + 3
    /\ s[NameRun(s) + 1] = ":"
    /\ s[NameRun(s) + 2] = " "
    /\ ValueRun(AfterSeparator(s)) >= 1

\* ':' is not a name character, so group 1 is the whole name run
Matches(s) ==
    /\ NameRun(s) >= 1
    /\ Len(s) >= NameRun(s) + 3
    /\ s[NameRun(s) + 1] = ":"
    /\ s[NameRun(s) + 2] = " "
    /\ ValueRun(AfterSeparator(s)) >= 1

\* match[1].trim()
MatchName(s) ==
    Trim(SubSeq(s, 1, NameRun(s)))

\* match[2].trim()
MatchValue(s) ==
    Trim(SubSeq(AfterSeparator(s), 1, ValueRun(AfterSeparator(s))))

(***************************************************************************)
(* The regular expression /(^| )prompt/i of build_info_html.               *)
(***************************************************************************)
RECURSIVE ToLower(_)
ToLower(s) ==
    IF s = <<>> THEN <<>>
    ELSE <<ToLowerChar(Head(s))>> \o ToLower(Tail(s))

\* the regular expression tried at the start positions from, from + 1, ...
RECURSIVE PromptMatchFrom(_, _)
PromptMatchFrom(name, from) ==
    IF from > Len(name) THEN FALSE
    ELSE IF from = 1 /\ OccursAt(ToLower(name), PromptWord, 1) THEN TRUE
    ELSE IF name[from] = " " /\ OccursAt(ToLower(name), PromptWord, from + 1) THEN TRUE
    ELSE PromptMatchFrom(name, from + 1)

\* variant: the (^| ) group dropped, "prompt" matches anywhere in the name
PromptMatchAnywhere(name) ==
    \E i \in 1..Len(name) : OccursAt(ToLower(name), PromptWord, i)

PromptMatch(name) ==
    PromptMatchFrom(name, 1)

\* const is_normal_field = !field.name.match(/(^| )prompt/i)
IsNormalField(name) ==
    ~PromptMatch(name)

(***************************************************************************)
(* Steps of split_info on the field list.                                  *)
(***************************************************************************)
Field(n, v) ==
    [name |-> n, value |-> v]

\* fields.push({name: 'Prompt', value: ''})
InitialFields ==
    <<Field(Prompt, <<>>)>>

\* variant: unshift instead of push
PushFieldFront(fs, n, v) ==
    <<Field(n, v)>> \o fs

\* variant: a field whose name is already in the list overwrites that field
PushOrReplace(fs, n, v) ==
    IF \E i \in 1..Len(fs) : fs[i].name = n
    THEN [fs EXCEPT ![CHOOSE i \in 1..Len(fs) : fs[i].name = n].value = v]
    ELSE Append(fs, Field(n, v))

\* fields.push({name, value})
PushField(fs, n, v) ==
    Append(fs, Field(n, v))

\* variant: the separator is written unconditionally
CommaAlways(fs) ==
    CommaSpace

\* const comma = (fields[0].value == '') ? '' : ', '
CommaFor(fs) ==
    IF fs[1].value = <<>> THEN <<>> ELSE CommaSpace

\* variant: unmatched text always goes to fields[0]
AppendToPrompt(fs, text) ==
    [fs EXCEPT ![1].value = @ \o text]

\* fields[fields.length - 1].value += `${comma}${trimmed_field}`
AppendToLast(fs, text) ==
    [fs EXCEPT ![Len(fs)].value = @ \o text]

AmpEntity ==
    <<"&", "a", "m", "p", ";">>

\* variant: the second replace is missing
EscapeLtOnly(v) ==
    ReplaceAll(v, "<", LtEntity)

\* variant: the ampersand is escaped as well
EscapeWithAmp(v) ==
    ReplaceAll(ReplaceAll(ReplaceAll(v, "&", AmpEntity), "<", LtEntity), ">", GtEntity)

\* field.value.replace(/</g, '&lt;').replace(/>/g, '&gt;')
Escape(v) ==
    ReplaceAll(ReplaceAll(v, "<", LtEntity), ">", GtEntity)

EscapeAll(fs) ==
    [i \in 1..Len(fs) |-> Field(fs[i].name, Escape(fs[i].value))]

(***************************************************************************)
(* Inputs: every concatenation of at most MaxTokens tokens, and the        *)
(* examples of the documentation.                                          *)
(***************************************************************************)
Tokens ==
    { <<"a">>, <<" ">>, <<",">>, <<":">>, <<"<">>,
      BR,
      PromptWord,
      <<"k", ":", " ", ">", ",">> }

RECURSIVE Concatenations(_)
Concatenations(n) ==
    IF n = 0 THEN {<<>>}
    ELSE Concatenations(n - 1)
         \cup {s \o t : s \in Concatenations(n - 1), t \in Tokens}

ExampleReassembly ==
    <<"S", "t", "e", "p", "s", ":", " ", "2", "0", ",", " ", "S", "a", "m", "p", "l", "e", "r", ":", " ", "E", "u", "l", "e", "r", ",", " ", "C", "F", "G", " ", "s", "c", "a", "l", "e", ":", " ", "7", "<", "b", "r", ">", "N", "e", "g", "a", "t", "i", "v", "e", " ", "p", "r", "o", "m", "p", "t", ":", " ", "b", "l", "u", "r", "r", "y", ",", " ", "l", "o", "w", " ", "q", "u", "a", "l", "i", "t", "y">>

ExampleLeadingText ==
    <<"a", " ", "p", "h", "o", "t", "o", " ", "o", "f", " ", "a", " ", "c", "a", "t", ",", " ", "S", "t", "e", "p", "s", ":", " ", "2", "0">>

ExampleScript ==
    <<"a", " ", "c", "a", "t", "<", "b", "r", ">", "M", "o", "d", "e", "l", ":", " ", "<", "s", "c", "r", "i", "p", "t", ">">>

ExamplePromptless ==
    <<"P", "r", "o", "m", "p", "t", "l", "e", "s", "s", ":", " ", "1", ",", " ", "S", "t", "e", "p", "s", ":", " ", "2", "0", ",", " ", "x", "p", "r", "o", "m", "p", "t", ":", " ", "2">>

ExampleLetterCase ==
    <<"P", "R", "O", "M", "P", "T", ":", " ", "a", ",", " ", "S", "t", "e", "p", "s", ":", " ", "2", "0", ",", " ", "n", "e", "g", "a", "t", "i", "v", "e", " ", "P", "R", "O", "M", "P", "T", ":", " ", "b", ",", " ", "S", "a", "m", "p", "l", "e", "r", ":", " ", "E", "u", "l", "e", "r", ",", " ", "p", "r", "o", "m", "p", "t", ":", " ", "c">>

ExampleMultiLine ==
    <<"c", "a", "t", ",", " ", "<", "b", ">", "<", "b", "r", ">", "o", "n", " ", "a", " ", "m", "a", "t", ",", " ", "S", "t", "e", "p", "s", ":", " ", "2", "0", ",", " ", "x">>

ExampleEntity ==
    <<"M", "o", "d", "e", "l", ":", " ", "a", " ", "&", "l", "t", ";", " ", "b", " ", "<", " ", "c", " ", ">", " ", "d">>

ExampleDuplicate ==
    <<"S", "t", "e", "p", "s", ":", " ", "2", "0", ",", " ", "S", "t", "e", "p", "s", ":", " ", "3", "0", ",", ",", " ", "S", "a", "m", "p", "l", "e", "r", ":", " ", "E", "u", "l", "e", "r">>

ExamplePaddedName ==
    <<"S", "i", "z", "e", " ", ":", " ", "5", "1", "2", ",", " ", ":", " ", "x", ",", " ", "_", ":", " ", "y">>

Examples ==
    { ExampleReassembly, ExampleLeadingText, ExampleScript,
      ExamplePromptless, ExampleLetterCase, ExampleDuplicate,
      ExampleMultiLine, ExampleEntity, ExamplePaddedName }

Inputs ==
    Concatenations(MaxTokens) \cup Examples

(***************************************************************************)
(* Steps of build_info_html on the markup written so far.  The markup is   *)
(* the sequence of the pieces appended to html, one per `html +=`; the     *)
(* text of a piece is what the template literal interpolates into it.      *)
(***************************************************************************)
Piece(line, text) ==
    [line |-> line, text |-> text]

Layout(h, c) ==
    [html |-> h, field_count |-> c]

\* variant: the counter is reset but the closing tag is not written
CloseRowNoEmit(st) ==
    IF st.field_count > 0
    THEN Layout(st.html, 0)
    ELSE st

\* function close_row()
CloseRow(st) ==
    IF st.field_count > 0
    THEN Layout(Append(st.html, Piece(RowClose, <<>>)), 0)
    ELSE st

\* variant: the row is closed one field too late
CloseFullRowLate(st) ==
    IF st.field_count > 2 THEN CloseRow(st) ELSE st

\* variant: the row is closed as soon as it holds one field
CloseFullRowEarly(st) ==
    IF st.field_count > 0 THEN CloseRow(st) ELSE st

\* if (field_count > 1) close_row()
CloseFullRow(st) ==
    IF st.field_count > 1 THEN CloseRow(st) ELSE st

\* the three lines appended after the opening tag of a block
BlockBody(f) ==
    << Piece(NameLine, f.name), Piece(ValueLine, f.value), Piece(BlockClose, <<>>) >>

\* the branch of a normal field
AddToRow(st, f) ==
    Layout(st.html
             \o (IF st.field_count = 0 THEN <<Piece(RowOpen, <<>>)>> ELSE <<>>)
             \o <<Piece(FieldOpen, <<>>)>>
             \o BlockBody(f),
           st.field_count + 1)

\* variant: the open row is not closed before the vertical block
AddVerticalNoClose(st, f) ==
    Layout(st.html \o <<Piece(VerticalFieldOpen, <<>>)>> \o BlockBody(f),
           st.field_count)

\* variant: a prompt field with an empty value is not written
AddVerticalSkipEmpty(st, f) ==
    IF f.value = <<>> THEN CloseRow(st)
    ELSE Layout(CloseRow(st).html \o <<Piece(VerticalFieldOpen, <<>>)>> \o BlockBody(f),
                CloseRow(st).field_count)

\* the branch of a prompt field
AddVertical(st, f) ==
    Layout(CloseRow(st).html \o <<Piece(VerticalFieldOpen, <<>>)>> \o BlockBody(f),
           CloseRow(st).field_count)

(***************************************************************************)
(* State.                                                                  *)
(***************************************************************************)
VARIABLES
    info,         \* the argument of build_info_html and of split_info
    pc,           \* the position in build_info_html / split_info
    line_no,      \* split_info: index of `line` in `lines`
    frag_no,      \* split_info: index of `field` in line.split(',')
    fields,       \* the field list
    field_count,  \* build_info_html: fields in the current row
    html,         \* build_info_html: the markup written so far
    field_no      \* build_info_html: index of `field` in `fields`

\* the variables of build_info_html and split_info
info_vars == <<info, pc, line_no, frag_no, fields, field_count, html, field_no>>

(***************************************************************************)
(* State of the download buttons: the button polled by                     *)
(* waitForValueChange, the timers of setInterval and the download manager. *)
(***************************************************************************)
VARIABLES
    onclick,      \* button.onclick of the download button and of the stop button
    innerText,    \* element.innerText of the download button
    value,        \* element.value of the download button
    intervals,    \* the timers made by setInterval, in the order of the calls
    clicks,       \* clicks on the download button so far
    ticks,        \* runs of a timer function so far, counted up to MaxTicks
    display,      \* style.display of #sd_mm_download_manager
    shown,        \* per click: calls of showDownloadManager by its callback
    hidden,       \* per click: calls of hideDownloadManager by its callback
    refreshed,    \* per click: calls of refreshAllTabs by its callback
    seen          \* per click: the texts the button has taken since the click

poll_vars ==
    <<onclick, innerText, value, intervals, clicks, ticks, display, shown, hidden,
      refreshed, seen>>

vars == <<info_vars, poll_vars>>

\* clicks on the download button that are followed
MaxClicks == 2

\* runs of a timer function that are counted
MaxTicks == 2

Clicks ==
    1..MaxClicks

\* the label of a download button at rest
Download ==
    "Download"

\* 'Downloading...'
Downloading ==
    "Downloading..."

\* 'Download Complete'
DownloadComplete ==
    "Download Complete"

\* the texts the host page gives to element.innerText
Texts ==
    {Download, Downloading, DownloadComplete}

\* the texts the host page gives to element.value
Values ==
    {"", Downloading, DownloadComplete}

\* the page before onUiLoaded: no handler, no timer, the manager hidden
PageLoaded ==
    /\ onclick = [download |-> "null", stop |-> "null"]
    /\ innerText = Download
    /\ value = ""
    /\ intervals = <<>>
    /\ clicks = 0
    /\ ticks = 0
    /\ display = "none"
    /\ shown = [c \in Clicks |-> 0]
    /\ hidden = [c \in Clicks |-> 0]
    /\ refreshed = [c \in Clicks |-> 0]
    /\ seen = [c \in Clicks |-> "none"]

\* const lines = info.split('<br>')
Lines ==
    Split(info, BR)

\* line.split(',')
LineFragments ==
    Split(Lines[line_no], Comma)

\* const trimmed_field = field.trim()
trimmed_field ==
    Trim(LineFragments[frag_no])

\* no call of build_info_html has been made yet
Init ==
    /\ info = <<>>
    /\ pc = "idle"
    /\ line_no = 1
    /\ frag_no = 1
    /\ fields = <<>>
    /\ field_count = 0
    /\ html = <<>>
    /\ field_no = 1
    /\ PageLoaded

\* build_info_html(info) is called and calls split_info(info), which splits
\* the lines and adds the prompt field
CallBuildInfoHtml ==
    /\ pc = "idle"
    /\ info' \in Inputs
    /\ field_count' = 0
    /\ fields' = InitialFields
    /\ line_no' = 1
    /\ frag_no' = 1
    /\ pc' = "split"
    /\ UNCHANGED <<html, field_no>>
    /\ UNCHANGED poll_vars

\* the next iteration of the two nested for loops, or the end of both
NextFragment ==
    IF frag_no < Len(LineFragments)
    THEN /\ frag_no' = frag_no + 1
         /\ UNCHANGED <<line_no, pc>>
    ELSE IF line_no < Len(Lines)
    THEN /\ line_no' = line_no + 1
         /\ frag_no' = 1
         /\ UNCHANGED pc
    ELSE /\ pc' = "escape"
         /\ UNCHANGED <<line_no, frag_no>>

\* if (trimmed_field == '') continue
SkipEmptyField ==
    /\ pc = "split"
    /\ trimmed_field = <<>>
    /\ NextFragment
    /\ UNCHANGED <<info, fields, field_count, html, field_no>>
    /\ UNCHANGED poll_vars

\* if (match) fields.push({name, value})
PushMatchedField ==
    /\ pc = "split"
    /\ trimmed_field # <<>>
    /\ Matches(trimmed_field)
    /\ fields' = PushField(fields, MatchName(trimmed_field), MatchValue(trimmed_field))
    /\ NextFragment
    /\ UNCHANGED <<info, field_count, html, field_no>>
    /\ UNCHANGED poll_vars

\* else: append the fragment to the last field
AppendUnmatchedField ==
    /\ pc = "split"
    /\ trimmed_field # <<>>
    /\ ~Matches(trimmed_field)
    /\ fields' = AppendToLast(fields, CommaFor(fields) \o trimmed_field)
    /\ NextFragment
    /\ UNCHANGED <<info, field_count, html, field_no>>
    /\ UNCHANGED poll_vars

\* the escaping loop and the return of split_info
EscapeValues ==
    /\ pc = "escape"
    /\ fields' = EscapeAll(fields)
    /\ pc' = "build"
    /\ UNCHANGED <<info, line_no, frag_no, field_count, html, field_no>>
    /\ UNCHANGED poll_vars

\* let html = '<div class="sd-mm-model-info-container">\n'
OpenContainer ==
    /\ pc = "build"
    /\ html' = <<Piece(ContainerOpen, <<>>)>>
    /\ pc' = "layout"
    /\ UNCHANGED <<info, line_no, frag_no, fields, field_count, field_no>>
    /\ UNCHANGED poll_vars

\* the next iteration of the loop over the fields, or its end
NextField ==
    /\ field_no' = field_no + 1
    /\ pc' = IF field_no < Len(fields) THEN "layout" ELSE "close"

PlaceNormalField ==
    /\ pc = "layout"
    /\ IsNormalField(fields[field_no].name)
    /\ LET st == AddToRow(CloseFullRow(Layout(html, field_count)), fields[field_no])
       IN  /\ html' = st.html
           /\ field_count' = st.field_count
    /\ NextField
    /\ UNCHANGED <<info, line_no, frag_no, fields>>
    /\ UNCHANGED poll_vars

PlacePromptField ==
    /\ pc = "layout"
    /\ ~IsNormalField(fields[field_no].name)
    /\ LET st == AddVertical(CloseFullRow(Layout(html, field_count)), fields[field_no])
       IN  /\ html' = st.html
           /\ field_count' = st.field_count
    /\ NextField
    /\ UNCHANGED <<info, line_no, frag_no, fields>>
    /\ UNCHANGED poll_vars

\* close_row(); html += '</div>\n'; return html
CloseContainer ==
    /\ pc = "close"
    /\ LET st == CloseRow(Layout(html, field_count))
       IN  /\ html' = Append(st.html, Piece(ContainerClose, <<>>))
           /\ field_count' = st.field_count
    /\ pc' = "done"
    /\ UNCHANGED <<info, line_no, frag_no, fields, field_no>>
    /\ UNCHANGED poll_vars

Next ==
    \/ CallBuildInfoHtml
    \/ SkipEmptyField
    \/ PushMatchedField
    \/ AppendUnmatchedField
    \/ EscapeValues
    \/ OpenContainer
    \/ PlaceNormalField
    \/ PlacePromptField
    \/ CloseContainer

Spec == Init /\ [][Next]_vars

(***************************************************************************)
(* The fragments of the input, as the two loops of split_info visit them.  *)
(***************************************************************************)
\* the fragments of the lines, in order, before trimming
RECURSIVE RawFragments(_)
RawFragments(lines) ==
    IF lines = <<>> THEN <<>>
    ELSE Split(Head(lines), Comma) \o RawFragments(Tail(lines))

\* the fragments that are not skipped, trimmed
RECURSIVE TrimmedNonEmpty(_)
TrimmedNonEmpty(frags) ==
    IF frags = <<>> THEN <<>>
    ELSE (IF Trim(Head(frags)) = <<>> THEN <<>> ELSE <<Trim(Head(frags))>>)
         \o TrimmedNonEmpty(Tail(frags))

\* every non-empty trimmed fragment of the input
InputFragments ==
    TrimmedNonEmpty(RawFragments(Lines))

\* the non-empty trimmed fragments the loops have already handled
HandledFragments ==
    IF pc = "split"
    THEN TrimmedNonEmpty(RawFragments(SubSeq(Lines, 1, line_no - 1))
                         \o SubSeq(LineFragments, 1, frag_no - 1))
    ELSE InputFragments

\* split_info has returned
Parsed ==
    pc \in {"build", "layout", "close", "done"}

\* the current fragment is continuation text
AtUnmatchedFragment ==
    /\ pc = "split"
    /\ trimmed_field # <<>>
    /\ ~Matches(trimmed_field)

(***************************************************************************)
(* Auxiliary operators of the properties.                                  *)
(***************************************************************************)
Contains(s, sub) ==
    \E i \in 1..Len(s) : OccursAt(s, sub, i)

IsPrefix(p, s) ==
    Len(p) <= Len(s) /\ SubSeq(s, 1, Len(p)) = p

IsSuffix(p, s) ==
    Len(p) <= Len(s) /\ SubSeq(s, Len(s) - Len(p) + 1, Len(s)) = p

RECURSIVE JoinComma(_)
JoinComma(frags) ==
    IF frags = <<>> THEN <<>>
    ELSE IF Len(frags) = 1 THEN frags[1]
    ELSE Head(frags) \o CommaSpace \o JoinComma(Tail(frags))

\* the number of fragments before the first one that is an annotation
RECURSIVE LeadingCount(_)
LeadingCount(frags) ==
    IF frags = <<>> THEN 0
    ELSE IF Matches(Head(frags)) THEN 0
    ELSE 1 + LeadingCount(Tail(frags))

BlurryLowQuality ==
    <<"b", "l", "u", "r", "r", "y", ",", " ", "l", "o", "w", " ", "q", "u", "a", "l", "i", "t", "y">>

BlurryRun ==
    <<"b", "l", "u", "r", "r", "y", "l", "o", "w", " ", "q", "u", "a", "l", "i", "t", "y">>

CfgScale ==
    <<"C", "F", "G", " ", "s", "c", "a", "l", "e">>

Euler ==
    <<"E", "u", "l", "e", "r">>

PhotoOfACat ==
    <<"a", " ", "p", "h", "o", "t", "o", " ", "o", "f", " ", "a", " ", "c", "a", "t">>

Steps ==
    <<"S", "t", "e", "p", "s">>

Sampler ==
    <<"S", "a", "m", "p", "l", "e", "r">>

NegativePrompt ==
    <<"N", "e", "g", "a", "t", "i", "v", "e", " ", "p", "r", "o", "m", "p", "t">>

NoChevron(s) ==
    \A i \in 1..Len(s) : s[i] \notin {"<", ">"}

\* the number of places where sub occurs in s
CountOf(s, sub) ==
    Cardinality({i \in 1..Len(s) : OccursAt(s, sub, i)})

\* the two characters are the same letter, in either case
SameLetter(c, d) ==
    \/ c = d
    \/ \E i \in 1..26 : {c, d} = {LowerCase[i], UpperCase[i]}

SameIgnoringCase(a, b) ==
    /\ Len(a) = Len(b)
    /\ \A i \in 1..Len(a) : SameLetter(a[i], b[i])

\* "prompt", in any letter case, occurs in the name at position i
PromptAt(name, i) ==
    /\ i + 5 <= Len(name)
    /\ SameIgnoringCase(SubSeq(name, i, i + 5), PromptWord)

\* "prompt" at the start of the name or right after a space
PromptAtWordStart(name) ==
    \E i \in 1..Len(name) :
        PromptAt(name, i) /\ (i = 1 \/ name[i - 1] = " ")

\* the same, with no word character after it
WholeWordPrompt(name) ==
    \E i \in 1..Len(name) :
        /\ PromptAt(name, i)
        /\ (i = 1 \/ name[i - 1] = " ")
        /\ (i + 6 > Len(name) \/ ~IsWordChar(name[i + 6]))

\* the places of the markup where a block opens
Blocks ==
    {j \in 1..Len(html) : html[j].line \in {FieldOpen, VerticalFieldOpen}}

\* the name written into the block opened at j
BlockName(j) ==
    html[j + 1].text

\* the row opened at r has not been closed
RowStillOpen(r) ==
    \A m \in (r + 1)..Len(html) : html[m].line # RowClose

\* the block opened at j lies in a row that is open at j
InsideRow(j) ==
    \E r \in 1..(j - 1) :
        /\ html[r].line = RowOpen
        /\ \A m \in (r + 1)..(j - 1) : html[m].line # RowClose

\* the number of "field" blocks of the row opened at r
FieldsInRow(r) ==
    Cardinality({j \in (r + 1)..Len(html) :
                    /\ html[j].line = FieldOpen
                    /\ \A m \in (r + 1)..(j - 1) : html[m].line \notin {RowOpen, RowClose}})

EscapedScript ==
    <<"&", "l", "t", ";", "s", "c", "r", "i", "p", "t", "&", "g", "t", ";">>

Promptless ==
    <<"P", "r", "o", "m", "p", "t", "l", "e", "s", "s">>

UpperPrompt ==
    <<"P", "R", "O", "M", "P", "T">>

(***************************************************************************)
(* Properties of split_info.                                               *)
(***************************************************************************)

\* the number of steps the two functions can still take, at most
\* at position p, with the loop indices l, f and k and the field list fs
StepsLeft(p, l, f, fs, k) ==
    LET n == Len(RawFragments(Lines))
    IN  CASE p = "split"  -> (n - Len(RawFragments(SubSeq(Lines, 1, l - 1))) - (f - 1))
                                + n + 5
          [] p = "escape" -> n + 5
          [] p = "build"  -> n + 4
          [] p = "layout" -> (Len(fs) - k) + 2
          [] p = "close"  -> 1
          [] OTHER        -> 0

\* C1: for every input the parser terminates (every step lowers a natural
\* number) without reading outside its lists, the field list always holds
\* at least one field and its first field is named "Prompt"; the empty
\* input yields exactly the field Prompt = "".
C1_PromptFirst ==
    /\ [](pc # "idle" =>
            /\ Len(fields) >= 1
            /\ fields[1].name = Prompt
            /\ pc = "split" => /\ line_no \in 1..Len(Lines)
                               /\ frag_no \in 1..Len(LineFragments)
            /\ (Parsed /\ info = <<>>) => fields = <<Field(Prompt, <<>>)>>)
    /\ [][pc # "idle" =>
            /\ info' = info
            /\ StepsLeft(pc, line_no, frag_no, fields, field_no) \in Nat
            /\ StepsLeft(pc', line_no', frag_no', fields', field_no')
                  < StepsLeft(pc, line_no, frag_no, fields, field_no)]_vars

C1_EmptyInputParsed ==
    /\ pc = "done"
    /\ info = <<>>
    /\ fields = <<Field(Prompt, <<>>)>>

\* C2: continuation rule as documented: an unmatched fragment is appended
\* to the last field, preceded by ", " exactly when that last field's own
\* value is non-empty; the documented example reassembles
\* Negative prompt = "blurry, low quality".
C2_ContinuationRule ==
    /\ [][AtUnmatchedFragment =>
            fields' = [fields EXCEPT ![Len(fields)].value =
                          @ \o (IF @ = <<>> THEN <<>> ELSE CommaSpace) \o trimmed_field]]_vars
    /\ []((Parsed /\ info = ExampleReassembly) =>
            fields = << Field(Prompt, <<>>),
                        Field(Steps, <<"2", "0">>),
                        Field(Sampler, Euler),
                        Field(CfgScale, <<"7">>),
                        Field(NegativePrompt, BlurryLowQuality) >>)

\* C3 (as stated): after the parse every unmatched fragment of the input is
\* part of the value of the Prompt field, which is the first field.
C3_PromptAbsorbsAll ==
    Parsed =>
        /\ fields[1].name = Prompt
        /\ \A i \in 1..Len(InputFragments) :
              ~Matches(InputFragments[i]) =>
                  Contains(fields[1].value, Escape(InputFragments[i]))

\* C3 (amended): Prompt stays the first field; an unmatched fragment is
\* appended to the end of the value of the field that is last in the list
\* at that moment and to no other field, so Prompt receives it only while
\* no annotation has been recognized yet.
C3_UnmatchedGoesToLastField ==
    [][AtUnmatchedFragment =>
          /\ Len(fields') = Len(fields)
          /\ fields'[1].name = Prompt
          /\ \A i \in 1..(Len(fields) - 1) : fields'[i] = fields[i]
          /\ fields'[Len(fields)].name = fields[Len(fields)].name
          /\ IsPrefix(fields[Len(fields)].value, fields'[Len(fields)].value)
          /\ IsSuffix(trimmed_field, fields'[Len(fields)].value)
          /\ Len(fields'[Len(fields)].value) > Len(fields[Len(fields)].value)
          /\ (fields'[1] # fields[1] => Len(fields) = 1)]_vars

C3_TextAfterAnnotation ==
    /\ pc = "done"
    /\ info = ExampleReassembly
    /\ fields[1] = Field(Prompt, <<>>)
    /\ fields[Len(fields)] = Field(NegativePrompt, BlurryRun)

\* C4: when the first k >= 1 non-empty trimmed fragments are not
\* annotations, the Prompt value is those k fragments joined with ", "
\* (escaped) and the first annotation is the second field; the documented
\* example yields Prompt = "a photo of a cat", Steps = "20".
C4_LeadingTextInPrompt ==
    LET k == LeadingCount(InputFragments)
    IN  Parsed =>
          /\ k >= 1 =>
                fields[1] = Field(Prompt, Escape(JoinComma(SubSeq(InputFragments, 1, k))))
          /\ (k >= 1 /\ k < Len(InputFragments)) =>
                /\ Len(fields) >= 2
                /\ fields[2].name = MatchName(InputFragments[k + 1])
                /\ IsPrefix(Escape(MatchValue(InputFragments[k + 1])), fields[2].value)
          /\ info = ExampleLeadingText =>
                fields = <<Field(Prompt, PhotoOfACat), Field(Steps, <<"2", "0">>)>>

C4_LeadingTextOverTwoLines ==
    /\ pc = "done"
    /\ Len(Lines) >= 2
    /\ LeadingCount(InputFragments) >= 3
    /\ LeadingCount(InputFragments) < Len(InputFragments)
    /\ Contains(fields[1].value, CommaSpace)
    /\ Len(fields) >= 2

\* C5: the field list holds Prompt and then one field per annotation
\* fragment handled so far, in the order of the fragments, duplicate names
\* included; skipped (empty) and unmatched fragments add no field.
C5_OneFieldPerAnnotation ==
    LET annotations == SelectSeq(HandledFragments, Matches)
    IN  pc # "idle" =>
        /\ Len(fields) = 1 + Len(annotations)
        /\ \A i \in 1..Len(annotations) :
              /\ fields[i + 1].name = MatchName(annotations[i])
              /\ IsPrefix(IF Parsed THEN Escape(MatchValue(annotations[i]))
                                    ELSE MatchValue(annotations[i]),
                          fields[i + 1].value)

C5_DuplicateNamesKept ==
    /\ pc = "done"
    /\ Len(RawFragments(Lines)) > Len(InputFragments)
    /\ \E i, j \in 2..Len(fields) : i < j /\ fields[i].name = fields[j].name

\* C6: no '<' or '>' of the input reaches the output: after the parse no
\* field value holds one, and no text interpolated into the markup (name or
\* value) holds one; a value "<script>" is written as "&lt;script&gt;".
C6_NoRawChevrons ==
    /\ Parsed => \A i \in 1..Len(fields) : NoChevron(fields[i].value)
    /\ \A j \in 1..Len(html) : NoChevron(html[j].text)
    /\ (pc = "done" /\ info = ExampleScript) =>
          \E j \in 1..Len(html) : html[j] = Piece(ValueLine, EscapedScript)

C6_ScriptEscaped ==
    /\ pc = "done"
    /\ Contains(info, <<"<", "s", "c", "r", "i", "p", "t", ">">>)
    /\ \E j \in 1..Len(html) :
          html[j].line = ValueLine /\ Contains(html[j].text, EscapedScript)

\* C7: the escaping step is idempotent: escaping an escaped value again
\* leaves it unchanged, and the step writes exactly one entity for each
\* '<' and each '>' of the original value.
C7_EscapeIdempotent ==
    [][pc = "escape" =>
          \A i \in 1..Len(fields) :
             /\ Escape(fields'[i].value) = fields'[i].value
             /\ CountOf(fields'[i].value, LtEntity)
                   = CountOf(fields[i].value, LtEntity) + CountOf(fields[i].value, <<"<">>)
             /\ CountOf(fields'[i].value, GtEntity)
                   = CountOf(fields[i].value, GtEntity) + CountOf(fields[i].value, <<">">>)
             /\ Len(fields'[i].value)
                   = Len(fields[i].value)
                       + 3 * (CountOf(fields[i].value, <<"<">>) + CountOf(fields[i].value, <<">">>))]_vars

C7_EntitiesWritten ==
    /\ pc = "build"
    /\ \E i \in 1..Len(fields) :
          /\ CountOf(fields[i].value, LtEntity) >= 2
          /\ CountOf(fields[i].value, GtEntity) >= 1

(***************************************************************************)
(* Properties of build_info_html.                                          *)
(***************************************************************************)

\* C8 (as stated): a block is vertical only when "prompt" occurs in its
\* name as a whole word, at the start or after a space.
C8_WholeWordPrompt ==
    \A j \in Blocks :
        /\ html[j].line = VerticalFieldOpen => WholeWordPrompt(BlockName(j))
        /\ BlockName(j) = Promptless => html[j].line = FieldOpen /\ InsideRow(j)

\* C8 (amended): a block is vertical exactly when "prompt" occurs in its
\* name, in any letter case, at the start of the name or right after a
\* space, whatever follows it; "Promptless" is therefore vertical too, and
\* every other field is a "field" block inside a row.
C8_PromptAtWordStart ==
    \A j \in Blocks :
        /\ html[j].line = VerticalFieldOpen <=> PromptAtWordStart(BlockName(j))
        /\ html[j].line = FieldOpen <=> ~PromptAtWordStart(BlockName(j))
        /\ html[j].line = FieldOpen => InsideRow(j)
        /\ BlockName(j) = Promptless => html[j].line = VerticalFieldOpen

C8_PromptlessVertical ==
    /\ pc = "done"
    /\ \E j \in Blocks :
          /\ BlockName(j) = Promptless
          /\ html[j].line = VerticalFieldOpen
          /\ ~InsideRow(j)

\* C9: a field named "prompt", "Prompt" or "Negative prompt", in any letter
\* case, is a "vertical-field" block outside every row; a field named
\* "Steps" or "Sampler" is a "field" block inside a row.
C9_PromptVerticalStepsInRow ==
    \A j \in Blocks :
        /\ (SameIgnoringCase(BlockName(j), Prompt)
              \/ SameIgnoringCase(BlockName(j), NegativePrompt)) =>
                 html[j].line = VerticalFieldOpen /\ ~InsideRow(j)
        /\ BlockName(j) \in {Steps, Sampler} =>
                 html[j].line = FieldOpen /\ InsideRow(j)

C9_LetterCases ==
    /\ pc = "done"
    /\ \E j \in Blocks : BlockName(j) = UpperPrompt /\ html[j].line = VerticalFieldOpen
    /\ \E j \in Blocks : SameIgnoringCase(BlockName(j), NegativePrompt) /\ ~InsideRow(j)
    /\ \E j \in Blocks : BlockName(j) = Steps /\ InsideRow(j)
    /\ \E j \in Blocks : BlockName(j) = Sampler /\ InsideRow(j)

\* C10: the row counter is always 0, 1 or 2, it counts the "field" blocks
\* of the open row, and no row of the markup holds more than two "field"
\* blocks.
C10_AtMostTwoPerRow ==
    /\ field_count \in {0, 1, 2}
    /\ \A r \in 1..Len(html) :
          html[r].line = RowOpen => FieldsInRow(r) \in {1, 2}
    /\ \A r \in 1..Len(html) :
          (html[r].line = RowOpen /\ RowStillOpen(r)) => FieldsInRow(r) = field_count

C10_FullRowClosed ==
    /\ pc = "layout"
    /\ field_count = 1
    /\ \E r \in 1..Len(html) :
          html[r].line = RowOpen /\ ~RowStillOpen(r) /\ FieldsInRow(r) = 2
    /\ \E r \in 1..Len(html) :
          html[r].line = RowOpen /\ RowStillOpen(r)

(***************************************************************************)
(* The shape of the markup: its row and block tags, in order.              *)
(***************************************************************************)
RECURSIVE Shape(_)
Shape(h) ==
    IF h = <<>> THEN <<>>
    ELSE (CASE Head(h).line = RowOpen           -> <<"row">>
            [] Head(h).line = RowClose          -> <<"end">>
            [] Head(h).line = FieldOpen         -> <<"field">>
            [] Head(h).line = VerticalFieldOpen -> <<"vertical">>
            [] OTHER                            -> <<>>)
         \o Shape(Tail(h))

\* k normal fields in a row of their own: rows of two, the last of one when k is odd
RECURSIVE RunShape(_)
RunShape(k) ==
    IF k = 0 THEN <<>>
    ELSE IF k = 1 THEN <<"row", "field", "end">>
    ELSE <<"row", "field", "field", "end">> \o RunShape(k - 2)

\* the number of rows RunShape(k) holds
RowsOfRun(k) ==
    (k + 1) \div 2

\* the shape of the fields from i on, after a run of k normal fields
RECURSIVE ExpectedShape(_, _, _)
ExpectedShape(fs, i, k) ==
    IF i > Len(fs) THEN RunShape(k)
    ELSE IF IsNormalField(fs[i].name) THEN ExpectedShape(fs, i + 1, k + 1)
    ELSE RunShape(k) \o <<"vertical">> \o ExpectedShape(fs, i + 1, 0)

\* the number of normal fields of fs
NormalCount(fs) ==
    Cardinality({i \in 1..Len(fs) : IsNormalField(fs[i].name)})

\* the normal fields of fs form one run
OneRun(fs) ==
    \A i, j \in 1..Len(fs) :
        (i < j /\ IsNormalField(fs[i].name) /\ IsNormalField(fs[j].name)) =>
            \A m \in i..j : IsNormalField(fs[m].name)

\* C11: a maximal run of k consecutive normal fields is laid out in
\* ceil(k/2) rows, all of two fields except the last, which holds one when
\* k is odd; three normal fields in one run give a row of two and a row of
\* one.
C11_RunsInRowsOfTwo ==
    pc = "done" =>
        /\ Shape(html) = ExpectedShape(fields, 1, 0)
        /\ OneRun(fields) =>
              Cardinality({r \in 1..Len(html) : html[r].line = RowOpen})
                 = RowsOfRun(NormalCount(fields))
        /\ (OneRun(fields) /\ NormalCount(fields) = 3) =>
              \E r1, r2 \in 1..Len(html) :
                 /\ r1 < r2
                 /\ html[r1].line = RowOpen /\ FieldsInRow(r1) = 2
                 /\ html[r2].line = RowOpen /\ FieldsInRow(r2) = 1

C11_ThreeNormalFields ==
    /\ pc = "done"
    /\ OneRun(fields)
    /\ NormalCount(fields) = 3
    /\ Cardinality({r \in 1..Len(html) : html[r].line = RowOpen}) = 2

\* the loop of build_info_html is at a prompt field
AtPromptField ==
    pc = "layout" /\ ~IsNormalField(fields[field_no].name)

\* the loop of build_info_html is at a normal field
AtNormalField ==
    pc = "layout" /\ IsNormalField(fields[field_no].name)

\* C12: placing a prompt field writes the closing tag of the open row, if
\* there is one (of one or of two fields), and then the vertical block, and
\* leaves the counter at 0; no vertical block lies inside an open row; a
\* normal field placed when the counter is 0 opens a new row.
C12_RowClosedBeforeVertical ==
    /\ [][AtPromptField =>
            /\ html' = html
                         \o (IF field_count > 0 THEN <<Piece(RowClose, <<>>)>> ELSE <<>>)
                         \o << Piece(VerticalFieldOpen, <<>>),
                               Piece(NameLine, fields[field_no].name),
                               Piece(ValueLine, fields[field_no].value),
                               Piece(BlockClose, <<>>) >>
            /\ field_count' = 0]_vars
    /\ [][(AtNormalField /\ field_count = 0) =>
            /\ Len(html') = Len(html) + 5
            /\ html'[Len(html) + 1].line = RowOpen
            /\ html'[Len(html) + 2].line = FieldOpen
            /\ field_count' = 1]_vars
    /\ [](\A j \in Blocks : html[j].line = VerticalFieldOpen => ~InsideRow(j))

C12_VerticalAfterOpenRow ==
    /\ pc = "done"
    /\ \E j \in Blocks :
          /\ html[j].line = VerticalFieldOpen
          /\ j > 6
          /\ html[j - 1].line = RowClose
          /\ html[j - 6].line = RowOpen
          /\ j + 4 <= Len(html)
          /\ html[j + 4].line = RowOpen

\* the (name, value) pairs of the blocks of the markup, in order
RECURSIVE ReadBlocks(_)
ReadBlocks(h) ==
    IF Len(h) < 3 THEN <<>>
    ELSE (IF Head(h).line \in {FieldOpen, VerticalFieldOpen}
             /\ h[2].line = NameLine
             /\ h[3].line = ValueLine
          THEN <<Field(h[2].text, h[3].text)>>
          ELSE <<>>)
         \o ReadBlocks(Tail(h))

\* C13: the markup holds one block per field placed so far, in the order of
\* the fields, with the name and the value of each; at the end the pairs
\* read off the markup are the field list itself, duplicate names and empty
\* values included.
C13_OneBlockPerField ==
    /\ pc = "layout" => ReadBlocks(html) = SubSeq(fields, 1, field_no - 1)
    /\ pc \in {"close", "done"} =>
          /\ ReadBlocks(html) = fields
          /\ Cardinality(Blocks) = Len(fields)

C13_DuplicateAndEmptyWritten ==
    /\ pc = "done"
    /\ Len(fields) >= 4
    /\ fields[1].value = <<>>
    /\ \E i, j \in 1..Len(fields) : i < j /\ fields[i].name = fields[j].name
    /\ Cardinality(Blocks) = Len(fields)

\* C14: every field of the list has a non-empty name: the first is named
\* "Prompt", and a name taken from an annotation is trimmed, is made of
\* word characters and spaces only, and starts with a word character.
C14_NamesNotEmpty ==
    pc # "idle" =>
        /\ fields[1].name = Prompt
        /\ \A i \in 1..Len(fields) :
              /\ fields[i].name # <<>>
              /\ IsWordChar(fields[i].name[1])
              /\ IsWordChar(fields[i].name[Len(fields[i].name)])
              /\ \A n \in 1..Len(fields[i].name) : IsNameChar(fields[i].name[n])

C14_PaddedNameTrimmed ==
    /\ pc = "done"
    /\ info = ExamplePaddedName
    /\ Len(fields) = 3
    /\ fields[2].name = <<"S", "i", "z", "e">>
    /\ fields[3].name = <<"_">>

\* the number of pieces of the markup that are the line l, among the first j
LineCount(l, j) ==
    Cardinality({m \in 1..j : html[m].line = l})

\* the number of rows open after the first j pieces
RowDepth(j) ==
    LineCount(RowOpen, j) - LineCount(RowClose, j)

\* C15: the markup is balanced: rows do not nest, a row is open exactly
\* when the counter is above 0, "field" blocks lie inside a row and
\* vertical blocks outside, a row is closed right after the closing tag of
\* its last "field" block and before a vertical block, a new row or the end
\* of the container; at the end every row opened has been closed, and the
\* container, opened first, is closed last and once.
C15_MarkupBalanced ==
    /\ \A j \in 1..Len(html) :
          /\ RowDepth(j) \in {0, 1}
          /\ html[j].line = FieldOpen => RowDepth(j) = 1
          /\ html[j].line = VerticalFieldOpen => RowDepth(j) = 0
          /\ html[j].line = RowOpen => RowDepth(j - 1) = 0
          /\ html[j].line = RowClose =>
                /\ RowDepth(j - 1) = 1
                /\ html[j - 1].line = BlockClose
                /\ html[j - 4].line = FieldOpen
                /\ j < Len(html) =>
                      html[j + 1].line \in {VerticalFieldOpen, RowOpen, ContainerClose}
          /\ html[j].line = ContainerOpen <=> j = 1
          /\ html[j].line = ContainerClose => (pc = "done" /\ j = Len(html))
    /\ pc \in {"layout", "close"} =>
          (RowDepth(Len(html)) = 1 <=> field_count > 0)
    /\ pc = "done" =>
          /\ field_count = 0
          /\ LineCount(RowOpen, Len(html)) = LineCount(RowClose, Len(html))
          /\ html[1].line = ContainerOpen
          /\ html[Len(html)].line = ContainerClose

C15_RowsOpenedAndClosed ==
    /\ pc = "done"
    /\ LineCount(RowOpen, Len(html)) >= 2
    /\ LineCount(RowClose, Len(html)) >= 2
    /\ LineCount(VerticalFieldOpen, Len(html)) >= 2
    /\ html[Len(html) - 1].line = RowClose

(***************************************************************************)
(* The download buttons: assignButtonAction, waitForValueChange,           *)
(* handleDownloadButton, showDownloadManager and hideDownloadManager.      *)
(***************************************************************************)

\* if (button.onclick != null) return; button.onclick = action
AssignButtonAction(oc, button, action) ==
    IF oc[button] # "null" THEN oc ELSE [oc EXCEPT ![button] = action]

\* element.innerText == text || element.value == text
ValueMatches(text) ==
    innerText = text \/ value = text

\* the timer of one call of waitForValueChange(component_id, text, action):
\* `action` names the callback, `click` the click the call belongs to
Interval(text, action, click) ==
    [text |-> text, action |-> action, click |-> click, cleared |-> FALSE, runs |-> 0]

\* const interval = setInterval(function () {...}, delay)
SetInterval(ivs, text, action, click) ==
    Append(ivs, Interval(text, action, click))

\* a timer that is never cleared
ClearIntervalNever(ivs, i) ==
    ivs

\* clearInterval(interval)
ClearInterval(ivs, i) ==
    [ivs EXCEPT ![i].cleared = TRUE]

\* action() is called by the timer function of interval i
Called(ivs, i) ==
    [ivs EXCEPT ![i].runs = @ + 1]

\* the timers that setInterval has made and clearInterval has not cleared
Polling ==
    {i \in 1..Len(intervals) : ~intervals[i].cleared}

\* what click c has seen of the text of the button once it is text_after:
\* 'Downloading...' since the click, and 'Download Complete' after that
SeenAfter(c, text_after) ==
    IF c > clicks THEN seen[c]
    ELSE IF seen[c] = "none" /\ text_after = Downloading THEN "downloading"
    ELSE IF seen[c] = "downloading" /\ text_after = DownloadComplete THEN "complete"
    ELSE seen[c]

\* onUiLoaded: handleDownloadButton(download_button_id) assigns the click
\* handler of the download button, and the stop button gets
\* hideDownloadManager
OnUiLoaded ==
    /\ onclick.download = "null"
    /\ onclick' = AssignButtonAction(
                      AssignButtonAction(onclick, "download", "waitForValueChange"),
                      "stop", "hideDownloadManager")
    /\ UNCHANGED <<innerText, value, intervals, clicks, ticks, display, shown, hidden,
                   refreshed, seen>>
    /\ UNCHANGED info_vars

\* a click on the download button runs its handler:
\* waitForValueChange(download_button_id, 'Downloading...', ...)
ClickDownload ==
    /\ onclick.download = "waitForValueChange"
    /\ clicks < MaxClicks
    /\ clicks' = clicks + 1
    /\ intervals' = SetInterval(intervals, Downloading, "start", clicks + 1)
    /\ UNCHANGED <<onclick, innerText, value, ticks, display, shown, hidden, refreshed,
                   seen>>
    /\ UNCHANGED info_vars

\* a click on the stop button of the download manager runs hideDownloadManager
ClickStop ==
    /\ onclick.stop = "hideDownloadManager"
    /\ display' = "none"
    /\ UNCHANGED <<onclick, innerText, value, intervals, clicks, ticks, shown, hidden,
                   refreshed, seen>>
    /\ UNCHANGED info_vars

\* the host page changes the text of the button
SetInnerText ==
    /\ \E t \in Texts \ {innerText} :
          /\ innerText' = t
          /\ seen' = [c \in Clicks |-> SeenAfter(c, t)]
    /\ UNCHANGED <<onclick, value, intervals, clicks, ticks, display, shown, hidden,
                   refreshed>>
    /\ UNCHANGED info_vars

\* the host page changes the value of the button
SetValue ==
    /\ \E v \in Values \ {value} : value' = v
    /\ UNCHANGED <<onclick, innerText, intervals, clicks, ticks, display, shown, hidden,
                   refreshed, seen>>
    /\ UNCHANGED info_vars

\* the callback of the first wait of a click: showDownloadManager(), then
\* waitForValueChange(download_button_id, 'Download Complete', ...)
DownloadStarted(i) ==
    /\ display' = "block"
    /\ shown' = [shown EXCEPT ![intervals[i].click] = @ + 1]
    /\ intervals' = ClearInterval(
                        SetInterval(Called(intervals, i), DownloadComplete, "complete",
                                    intervals[i].click), i)
    /\ UNCHANGED <<hidden, refreshed>>

\* the callback of the second wait: hideDownloadManager(); refreshAllTabs(500)
DownloadFinished(i) ==
    /\ display' = "none"
    /\ hidden' = [hidden EXCEPT ![intervals[i].click] = @ + 1]
    /\ refreshed' = [refreshed EXCEPT ![intervals[i].click] = @ + 1]
    /\ intervals' = ClearInterval(Called(intervals, i), i)
    /\ UNCHANGED shown

\* one run of the timer function of interval i:
\* if (element.innerText == text || element.value == text)
\*     { action(); clearInterval(interval) }
Tick(i) ==
    /\ i \in Polling
    /\ ticks' = IF ticks < MaxTicks THEN ticks + 1 ELSE ticks
    /\ IF ValueMatches(intervals[i].text)
       THEN IF intervals[i].action = "start"
            THEN DownloadStarted(i)
            ELSE DownloadFinished(i)
       ELSE UNCHANGED <<intervals, display, shown, hidden, refreshed>>
    /\ UNCHANGED <<onclick, innerText, value, clicks, seen>>
    /\ UNCHANGED info_vars

\* a timer function runs
TimerFires ==
    \E i \in 1..Len(intervals) : Tick(i)

PollNext ==
    \/ OnUiLoaded
    \/ ClickDownload
    \/ ClickStop
    \/ SetInnerText
    \/ SetValue
    \/ TimerFires

\* the download buttons alone
PollSpec == Init /\ [][PollNext]_vars

\* the timers a click can make: one per wait
MaxIntervals ==
    2 * MaxClicks

\* setInterval runs the function of every timer that is not cleared again
\* and again
FairPollSpec ==
    /\ Init
    /\ [][PollNext]_vars
    /\ \A i \in 1..MaxIntervals : WF_vars(Tick(i))

(***************************************************************************)
(* C17: waitForValueChange.                                                *)
(***************************************************************************)

\* a timer function runs while no timer that is polling finds its text
TickWithoutMatch ==
    /\ ticks' # ticks
    /\ \A i \in Polling : ~ValueMatches(intervals[i].text)

\* C17: each call of waitForValueChange runs its callback at most once.  The
\* callback runs only in a run of the timer function at which innerText or
\* value equals the text waited for; the timer is cleared in that same run,
\* and a cleared timer never changes again; a run of the timer function that
\* finds no match changes nothing, and a timer stops polling only by
\* running its callback.
C17_CallbackAtMostOnce ==
    /\ [](\A i \in 1..Len(intervals) :
             /\ intervals[i].runs \in {0, 1}
             /\ intervals[i].cleared <=> intervals[i].runs = 1)
    /\ [][/\ \A i \in 1..Len(intervals) :
               /\ intervals'[i].runs # intervals[i].runs =>
                     /\ ValueMatches(intervals[i].text)
                     /\ ~intervals[i].cleared
                     /\ intervals'[i].cleared
                     /\ ticks' # ticks \/ ticks = MaxTicks
               /\ intervals'[i].cleared # intervals[i].cleared =>
                     intervals'[i].runs = intervals[i].runs + 1
               /\ intervals[i].cleared => intervals'[i] = intervals[i]
               /\ ~ValueMatches(intervals[i].text) => intervals'[i] = intervals[i]
           /\ TickWithoutMatch =>
                 UNCHANGED <<intervals, display, shown, hidden, refreshed, onclick,
                             innerText, value, clicks>>
         ]_vars

\* the callback of the first wait has run once and its timer is cleared,
\* while the timer of the second wait has run without a match and is still
\* polling
C17_RanOnceThenCleared ==
    /\ Len(intervals) = 2
    /\ intervals[1].runs = 1
    /\ intervals[1].cleared
    /\ intervals[2].runs = 0
    /\ 2 \in Polling
    /\ ~ValueMatches(intervals[2].text)
    /\ ticks = MaxTicks

(***************************************************************************)
(* C16: handleDownloadButton.                                              *)
(***************************************************************************)

\* showDownloadManager runs for a click only in a run of a timer function
\* that finds 'Downloading...'; hideDownloadManager and refreshAllTabs run
\* only in a later one that finds 'Download Complete'; hide never precedes
\* show
ShowAndHideAtTheirTicks ==
    /\ [][\A c \in Clicks :
              /\ shown'[c] # shown[c] => ValueMatches(Downloading)
              /\ hidden'[c] # hidden[c] =>
                    (ValueMatches(DownloadComplete) /\ shown[c] > 0)
              /\ refreshed'[c] # refreshed[c] =>
                    (ValueMatches(DownloadComplete) /\ shown[c] > 0)
         ]_vars
    /\ [](\A c \in Clicks : hidden[c] <= shown[c] /\ refreshed[c] = hidden[c])

\* after a click, once the text has been 'Downloading...' and later
\* 'Download Complete', the manager is eventually shown and then hidden
ShownThenHiddenInTheEnd ==
    \A c \in Clicks :
        /\ (seen[c] = "complete") ~> (shown[c] > 0)
        /\ (seen[c] = "complete") ~> (hidden[c] > 0)

\* C16: for each click on a download button, showDownloadManager runs only
\* at a poll tick where the button text is 'Downloading...',
\* hideDownloadManager and refreshAllTabs run only at a later poll tick where
\* it is 'Download Complete', hide never precedes show, and if the text
\* reaches 'Downloading...' and later 'Download Complete' the manager is
\* eventually shown and then eventually hidden.
C16_ShownAtStartHiddenAtEnd ==
    /\ ShowAndHideAtTheirTicks
    /\ ShownThenHiddenInTheEnd

====
